---- MODULE Spec2Model ----
(***************************************************************************)
(* Model of src/src/plugins.ts: the resolver that turns config.scripts and *)
(* config.plugins into plugins, bundler, runCommands, buildCommands and    *)
(* mountedDirs (loadPlugins), the directive classifier (parseScript) and   *)
(* the pipeline indexer (createBuildPipeline).                             *)
(*                                                                         *)
(* A JavaScript string is a sequence of one-character strings, so that     *)
(* toLowerCase, split, replace, trim and path.posix.normalize are computed *)
(* character by character as the code computes them.  A JavaScript object  *)
(* used as a map is a sequence of [k, v] entries in insertion order, which *)
(* is the order Object.entries and Object.values give for keys that are    *)
(* not array indices.                                                      *)
(***************************************************************************)
EXTENDS Integers, Sequences, FiniteSets, TLC

VARIABLES
  config,        \* the SnowpackConfig handed to loadPlugins: scripts, plugins
  pc,            \* where loadPlugins stands
  idx,           \* index of the next entry of the forEach in progress
  plugins,       \* const plugins (line 33)
  runCommands,   \* const runCommands (line 34)
  mountedDirs,   \* const mountedDirs (line 35)
  bundler,       \* let bundler (line 36): <<>> is undefined, <<p>> a plugin
  scriptPlugins, \* const scriptPlugins (line 54)
  buildCommands, \* const buildCommands (line 55)
  loads,         \* the module loads attempted so far, in order
  err,           \* why loadPlugins ended without a result
  nameBinding,   \* what the free identifier `name` of line 173 resolves to
  script,        \* parseScript's argument
  parsed,        \* parseScript's result
  pluginList,    \* createBuildPipeline's argument
  pipeline,      \* createBuildPipeline's result
  reindexed      \* the result of indexing pluginList a second time

loadVars == <<config, pc, idx, plugins, runCommands, mountedDirs, bundler,
              scriptPlugins, buildCommands, loads, err, nameBinding>>
parseVars == <<script, parsed>>
pipeVars == <<pluginList, pipeline, reindexed>>
vars == <<config, pc, idx, plugins, runCommands, mountedDirs, bundler,
          scriptPlugins, buildCommands, loads, err, nameBinding,
          script, parsed, pluginList, pipeline, reindexed>>

(***************************************************************************)
(* Bounds of the model.                                                    *)
(***************************************************************************)
MaxScripts == 2
MaxPlugins == 2
MaxExts == 2
MaxList == 2

(***************************************************************************)
(* JavaScript values and strings.                                          *)
(***************************************************************************)
Undefined == [t |-> "undefined", v |-> <<>>]
JsTrue == [t |-> "boolean", v |-> <<>>]
JsString(s) == [t |-> "string", v |-> s]
\* a number, kept as its decimal digits
JsNumber(digits) == [t |-> "number", v |-> digits]
JsArray(a) == [t |-> "array", v |-> a]

\* JavaScript truthiness of the values above
Truthy(x) ==
  CASE x.t = "undefined" -> FALSE
    [] x.t = "boolean" -> TRUE
    [] x.t = "string" -> x.v # <<>>
    [] x.t = "number" -> \E k \in 1..Len(x.v) : x.v[k] # "0"
    [] x.t = "array" -> TRUE

UpperChars == <<"A", "B", "C", "D", "E", "F", "G", "H", "I", "J", "K", "L", "M",
                "N", "O", "P", "Q", "R", "S", "T", "U", "V", "W", "X", "Y", "Z">>
LowerChars == <<"a", "b", "c", "d", "e", "f", "g", "h", "i", "j", "k", "l", "m",
                "n", "o", "p", "q", "r", "s", "t", "u", "v", "w", "x", "y", "z">>

DigitChars == <<"0", "1", "2", "3", "4", "5", "6", "7", "8", "9">>

IsDigit(c) == \E k \in 1..Len(DigitChars) : DigitChars[k] = c

\* a canonical decimal numeral: digits only, no leading zero but for "0"
IsDecimal(s) ==
  /\ s # <<>>
  /\ \A k \in 1..Len(s) : IsDigit(s[k])
  /\ Len(s) > 1 => s[1] # "0"

RECURSIVE ToNumber(_)
ToNumber(s) ==
  IF s = <<>> THEN 0
  ELSE 10 * ToNumber(SubSeq(s, 1, Len(s) - 1))
       + (CHOOSE k \in 1..Len(DigitChars) : DigitChars[k] = s[Len(s)]) - 1

ToLowerChar(c) ==
  IF \E k \in 1..Len(UpperChars) : UpperChars[k] = c
    THEN LowerChars[CHOOSE k \in 1..Len(UpperChars) : UpperChars[k] = c]
    ELSE c

\* String.prototype.toLowerCase
toLowerCase(s) == [k \in 1..Len(s) |-> ToLowerChar(s[k])]

RECURSIVE SplitFrom(_, _, _, _)
SplitFrom(s, sep, k, cur) ==
  IF k > Len(s) THEN <<cur>>
  ELSE IF s[k] = sep THEN <<cur>> \o SplitFrom(s, sep, k + 1, <<>>)
  ELSE SplitFrom(s, sep, k + 1, Append(cur, s[k]))

\* String.prototype.split with a one-character separator
split(s, sep) == SplitFrom(s, sep, 1, <<>>)

IsSpace(c) == c = " "

RECURSIVE SkipSpaces(_, _)
SkipSpaces(s, k) ==
  IF k <= Len(s) /\ IsSpace(s[k]) THEN SkipSpaces(s, k + 1) ELSE k

RECURSIVE SplitWsFrom(_, _, _)
SplitWsFrom(s, k, cur) ==
  IF k > Len(s) THEN <<cur>>
  ELSE IF IsSpace(s[k]) THEN <<cur>> \o SplitWsFrom(s, SkipSpaces(s, k), <<>>)
  ELSE SplitWsFrom(s, k + 1, Append(cur, s[k]))

\* String.prototype.split(/\s+/)
splitWhitespace(s) == SplitWsFrom(s, 1, <<>>)

RECURSIVE TrimStart(_)
TrimStart(s) == IF s # <<>> /\ IsSpace(s[1]) THEN TrimStart(Tail(s)) ELSE s

RECURSIVE TrimEnd(_)
TrimEnd(s) ==
  IF s # <<>> /\ IsSpace(s[Len(s)]) THEN TrimEnd(SubSeq(s, 1, Len(s) - 1)) ELSE s

\* String.prototype.trim
trim(s) == TrimEnd(TrimStart(s))

\* String.prototype.replace(/^\./, ''): drops one leading dot when there is one
replaceLeadingDot(s) == IF s # <<>> /\ s[1] = "." THEN Tail(s) ELSE s

RECURSIVE UniqueFrom(_, _, _)
UniqueFrom(a, k, acc) ==
  IF k > Len(a) THEN acc
  ELSE IF \E n \in 1..Len(acc) : acc[n] = a[k] THEN UniqueFrom(a, k + 1, acc)
  ELSE UniqueFrom(a, k + 1, Append(acc, a[k]))

\* [...new Set(a)]: the distinct elements of a, in order of first occurrence
unique(a) == UniqueFrom(a, 1, <<>>)

RECURSIVE Join(_, _)
Join(segs, sep) ==
  IF segs = <<>> THEN <<>>
  ELSE IF Len(segs) = 1 THEN segs[1]
  ELSE segs[1] \o <<sep>> \o Join(Tail(segs), sep)

(***************************************************************************)
(* parseScript (lines 14-21).                                              *)
(***************************************************************************)
\* the callback of the map of line 19: `.${ext}`.replace(/^\./, '').trim()
normalizeExt(ext) == trim(replaceLeadingDot(<<".">> \o ext))

parseScript(s) ==
  LET parts == split(toLowerCase(s), ":")
      exts == split(parts[2], ",")
  IN [scriptType |-> parts[1],
      extensions |-> unique([k \in 1..Len(exts) |-> normalizeExt(exts[k])])]

(***************************************************************************)
(* path.posix.normalize, as lines 115 and 116 use it.                      *)
(***************************************************************************)
Dot == <<".">>
DotDot == <<".", ".">>
Slash == <<"/">>

RECURSIVE normalizeString(_, _, _, _)
normalizeString(segs, k, allowAboveRoot, acc) ==
  IF k > Len(segs) THEN acc
  ELSE IF segs[k] = <<>> \/ segs[k] = Dot
    THEN normalizeString(segs, k + 1, allowAboveRoot, acc)
  ELSE IF segs[k] = DotDot
    THEN IF acc # <<>> /\ acc[Len(acc)] # DotDot
           THEN normalizeString(segs, k + 1, allowAboveRoot,
                                SubSeq(acc, 1, Len(acc) - 1))
         ELSE IF allowAboveRoot
           THEN normalizeString(segs, k + 1, allowAboveRoot, Append(acc, DotDot))
         ELSE normalizeString(segs, k + 1, allowAboveRoot, acc)
  ELSE normalizeString(segs, k + 1, allowAboveRoot, Append(acc, segs[k]))

normalize(p) ==
  IF p = <<>> THEN Dot
  ELSE LET isAbsolute == p[1] = "/"
           trailingSeparator == p[Len(p)] = "/"
           body == Join(normalizeString(split(p, "/"), 1, ~isAbsolute, <<>>), "/")
       IN IF body = <<>>
            THEN IF isAbsolute THEN Slash
                 ELSE IF trailingSeparator THEN <<".", "/">> ELSE Dot
            ELSE (IF isAbsolute THEN Slash ELSE <<>>) \o body
                 \o (IF trailingSeparator THEN Slash ELSE <<>>)

(***************************************************************************)
(* yargs-parser, as line 97 uses it, for argument lists made of the option *)
(* --to and of plain words: `--to` takes the next word as its value when   *)
(* that word is not itself an option, and is the boolean true otherwise;   *)
(* a value that is a decimal numeral is coerced to a number (the parser's  *)
(* parse-numbers default); every other word is positional (`_`, kept here  *)
(* as written, since line 98 reads only its length).                       *)
(***************************************************************************)
ToOption == <<"-", "-", "t", "o">>

IsOption(w) == w # <<>> /\ w[1] = "-"

\* the value of an option: numerals become numbers
coerce(w) == IF IsDecimal(w) THEN JsNumber(w) ELSE JsString(w)

RECURSIVE yargsFrom(_, _, _)
yargsFrom(args, k, acc) ==
  IF k > Len(args) THEN acc
  ELSE IF args[k] = ToOption
    THEN IF k < Len(args) /\ ~IsOption(args[k + 1])
           THEN yargsFrom(args, k + 2, [acc EXCEPT !.to = coerce(args[k + 1])])
           ELSE yargsFrom(args, k + 1, [acc EXCEPT !.to = JsTrue])
  ELSE yargsFrom(args, k + 1, [acc EXCEPT !.positional = Append(@, args[k])])

yargs(args) == yargsFrom(args, 1, [to |-> Undefined, positional |-> <<>>])

(***************************************************************************)
(* JavaScript objects used as maps: entries [k, v] in insertion order.     *)
(* Enumeration (Object.values) lists the keys that are array indices       *)
(* first, in ascending numeric order, then the others in insertion order.  *)
(***************************************************************************)
Has(obj, key) == \E n \in 1..Len(obj) : obj[n].k = key
Get(obj, key) == obj[CHOOSE n \in 1..Len(obj) : obj[n].k = key].v
Put(obj, key, val) ==
  IF Has(obj, key)
    THEN [n \in 1..Len(obj) |->
            IF obj[n].k = key THEN [k |-> key, v |-> val] ELSE obj[n]]
    ELSE Append(obj, [k |-> key, v |-> val])
IsIndexEntry(e) == IsDecimal(e.k)
IsNameEntry(e) == ~IsDecimal(e.k)
IndexBefore(a, b) == ToNumber(a.k) < ToNumber(b.k)

\* the own properties in enumeration order
OwnProperties(obj) ==
  SortSeq(SelectSeq(obj, IsIndexEntry), IndexBefore) \o SelectSeq(obj, IsNameEntry)

\* Object.values
Values(obj) == [n \in 1..Len(obj) |-> OwnProperties(obj)[n].v]

(***************************************************************************)
(* The environment of loadPlugins: the modules require() can load, the     *)
(* dependency directory of ./util, and the binding of the identifier       *)
(* `name`, which line 173 reads and no scope of plugins.ts declares.       *)
(***************************************************************************)
DEV_DEPENDENCIES_DIR == <<"/", "c", "a", "c", "h", "e", "/", "d", "e", "v">>

\* the specifiers that resolve to a module, and what each factory returns
PluginA == <<"p", "a">>
PluginB == <<"p", "b">>
PluginD == <<"p", "d">>
PluginS == <<"p", "s">>
Plugin7 == <<"7">>

NewPlugin(module, name, input, output, defaultBuildScript) ==
  [module |-> module, name |-> name, input |-> input, output |-> output,
   defaultBuildScript |-> defaultBuildScript]

\* require(require.resolve(specifier))(config, options): <<>> when it throws
Require(specifier) ==
  CASE specifier = PluginA ->
         <<NewPlugin(PluginA, Undefined, Undefined, Undefined, Undefined)>>
    [] specifier = PluginB ->
         <<NewPlugin(PluginB, JsString(<<"n", "b">>), JsArray(<<<<".", "t", "s">>>>),
                     JsArray(<<<<".", "j", "s">>>>), Undefined)>>
    [] specifier = PluginD ->
         <<NewPlugin(PluginD, Undefined, Undefined, Undefined,
                     JsString(<<"b", "u", "i", "l", "d", ":", "v", "u", "e", ",", "s", "v", "e", "l", "t", "e">>))>>
    [] specifier = PluginS ->
         <<NewPlugin(PluginS, Undefined, JsString(<<".", "m", "d">>), JsString(<<".", "h", "t", "m", "l">>),
                     Undefined)>>
    [] specifier = Plugin7 ->
         <<NewPlugin(Plugin7, Undefined, Undefined, Undefined, Undefined)>>
    [] OTHER -> <<>>

NameBindings == {"unbound", "falsy", "truthy"}

(***************************************************************************)
(* loadPlugins (lines 24-188).  The buckets of one call are gathered in a  *)
(* record; status is "ok" while the call runs on, "exit" once handleError  *)
(* has ended the process and "throw" once an exception has left the call.  *)
(***************************************************************************)
\* handleError (lines 9-12): console.error, then process.exit(1)
handleError(acc, msg) == [acc EXCEPT !.status = "exit", !.err = msg]

\* an exception that nothing catches
throw(acc, exception) == [acc EXCEPT !.status = "throw", !.err = exception]

\* loadPluginFromScript (lines 38-45): the catch turns a failure into undefined
loadPluginFromScript(specifier) == Require(specifier)

\* loadPluginFromConfig (lines 47-50): a failure is thrown to the caller
loadPluginFromConfig(specifier, options) == Require(specifier)

recordLoad(acc, specifier, how, options) ==
  [acc EXCEPT !.loads = Append(@, [specifier |-> specifier, how |-> how,
                                   options |-> options])]

NoOptions == <<"n", "o", "n", "e">>
EmptyOptions == <<"{", "}">>

\* variant: the command of a run directive is also tried as a plugin
caseRunLoading(acc, target, cmd) ==
  recordLoad([acc EXCEPT !.runCommands = Append(@, [id |-> target, cmd |-> cmd])],
             cmd, "soft", NoOptions)

\* variant: the entry is assigned instead of pushed
caseRunOverwrite(acc, target, cmd) ==
  [acc EXCEPT !.runCommands = <<[id |-> target, cmd |-> cmd]>>]

\* case 'run' (lines 60-63)
caseRun(acc, target, cmd) ==
  [acc EXCEPT !.runCommands = Append(@, [id |-> target, cmd |-> cmd])]

\* loadPlugins[pluginName] of line 71: a property of the function loadPlugins,
\* not of scriptPlugins; no plugin specifier names a property with input/output
loadPluginsProperty(pluginName) == Undefined

\* lines 71-73: destructuring undefined throws a TypeError; otherwise only the
\* locals input and output are assigned
mergeExtensions(acc, pluginName, extensions) ==
  IF loadPluginsProperty(pluginName).t = "undefined"
    THEN throw(acc, "TypeError")
    ELSE acc

\* lines 76-81
registerScriptPlugin(acc, plugin, pluginName, extensions) ==
  [acc EXCEPT !.scriptPlugins =
     Put(@, pluginName, [plugin EXCEPT !.name = JsString(pluginName),
                                       !.input = JsArray(extensions),
                                       !.output = JsArray(extensions)])]

RECURSIVE registerBuildCommandFirstWins(_, _, _, _)
\* variant: an extension keeps the first command stored for it
registerBuildCommandFirstWins(bc, extensions, target, cmd) ==
  IF extensions = <<>> THEN bc
  ELSE registerBuildCommandFirstWins(
         IF Has(bc, Head(extensions)) THEN bc
         ELSE Put(bc, Head(extensions), [id |-> target, cmd |-> cmd]),
         Tail(extensions), target, cmd)

RECURSIVE registerBuildCommand(_, _, _, _)
\* lines 85-87
registerBuildCommand(bc, extensions, target, cmd) ==
  IF extensions = <<>> THEN bc
  ELSE registerBuildCommand(Put(bc, Head(extensions), [id |-> target, cmd |-> cmd]),
                            Tail(extensions), target, cmd)

\* case 'build' (lines 64-90)
caseBuild(acc, target, cmd, extensions) ==
  LET plugin == loadPluginFromScript(cmd)
      loaded == recordLoad(acc, cmd, "soft", NoOptions)
  IN IF plugin # <<>>
       THEN IF Has(acc.scriptPlugins, cmd)
              THEN mergeExtensions(loaded, cmd, extensions)
              ELSE registerScriptPlugin(loaded, plugin[1], cmd, extensions)
       ELSE [loaded EXCEPT !.buildCommands =
               registerBuildCommand(@, extensions, target, cmd)]

Mount == <<"m", "o", "u", "n", "t">>
MountWebModules == <<"m", "o", "u", "n", "t", ":", "w", "e", "b", "_", "m", "o", "d", "u", "l", "e", "s">>

\* lines 104-117, once the command has passed the three checks
mountDir(acc, target, cmdArr, to) ==
  LET dirDisk == IF target = MountWebModules THEN DEV_DEPENDENCIES_DIR ELSE cmdArr[1]
      dirUrl == IF Truthy(to) THEN to.v ELSE Slash \o cmdArr[1]
  IN [acc EXCEPT !.mountedDirs =
        Append(@, [id |-> target,
                   fromDisk |-> normalize(dirDisk \o Slash),
                   toUrl |-> normalize(dirUrl \o Slash)])]

\* `to && to[0] !== '/'` (line 101)
badTo(to) == Truthy(to) /\ ~(to.t = "string" /\ to.v[1] = "/")

\* case 'mount' (lines 91-119)
caseMount(acc, target, cmd) ==
  LET words == splitWhitespace(cmd)
      cmdArr == Tail(words)
      parsedArgs == yargs(cmdArr)
  IN IF words[1] # Mount THEN handleError(acc, "mount-command")
     ELSE IF Len(parsedArgs.positional) # 1 THEN handleError(acc, "mount-format")
     ELSE IF badTo(parsedArgs.to) THEN handleError(acc, "mount-to")
     ELSE mountDir(acc, target, cmdArr, parsedArgs.to)

\* variant: a bundler that fails to load leaves the slot empty and goes on
caseBundleFallback(acc, target, cmd) ==
  LET plugin == loadPluginFromScript(cmd)
      loaded == recordLoad(acc, cmd, "soft", NoOptions)
  IN IF plugin = <<>>
       THEN [loaded EXCEPT !.bundler = <<>>]
       ELSE [loaded EXCEPT !.bundler =
               <<IF Truthy(plugin[1].name) THEN plugin[1]
                 ELSE [plugin[1] EXCEPT !.name = JsString(cmd)]>>]

\* variant: a bundler already in the slot is kept
caseBundleKeepFirst(acc, target, cmd) ==
  LET plugin == loadPluginFromScript(cmd)
      loaded == recordLoad(acc, cmd, "soft", NoOptions)
  IN IF plugin = <<>>
       THEN handleError([loaded EXCEPT !.bundler = <<>>], "bundle-load")
       ELSE IF acc.bundler # <<>> THEN loaded
       ELSE [loaded EXCEPT !.bundler =
               <<IF Truthy(plugin[1].name) THEN plugin[1]
                 ELSE [plugin[1] EXCEPT !.name = JsString(cmd)]>>]

\* case 'bundle' (lines 120-132)
caseBundle(acc, target, cmd) ==
  LET plugin == loadPluginFromScript(cmd)
      loaded == recordLoad(acc, cmd, "soft", NoOptions)
  IN IF plugin = <<>>
       THEN handleError([loaded EXCEPT !.bundler = <<>>], "bundle-load")
       ELSE [loaded EXCEPT !.bundler =
               <<IF Truthy(plugin[1].name) THEN plugin[1]
                 ELSE [plugin[1] EXCEPT !.name = JsString(cmd)]>>]

\* variant: a directive of no known type is taken for a run directive
forEachScriptDefaultRun(acc, target, cmd) ==
  IF Len(split(target, ":")) < 2 THEN throw(acc, "TypeError")
  ELSE LET p == parseScript(target)
       IN CASE p.scriptType = <<"b", "u", "i", "l", "d">> -> caseBuild(acc, target, cmd, p.extensions)
            [] p.scriptType = <<"m", "o", "u", "n", "t">> -> caseMount(acc, target, cmd)
            [] p.scriptType = <<"b", "u", "n", "d", "l", "e">> -> caseBundle(acc, target, cmd)
            [] OTHER -> caseRun(acc, target, cmd)

\* the callback of config.scripts' forEach (lines 56-134)
forEachScript(acc, target, cmd) ==
  IF Len(split(target, ":")) < 2 THEN throw(acc, "TypeError")
  ELSE LET p == parseScript(target)
       IN CASE p.scriptType = <<"r", "u", "n">> -> caseRun(acc, target, cmd)
            [] p.scriptType = <<"b", "u", "i", "l", "d">> -> caseBuild(acc, target, cmd, p.extensions)
            [] p.scriptType = <<"m", "o", "u", "n", "t">> -> caseMount(acc, target, cmd)
            [] p.scriptType = <<"b", "u", "n", "d", "l", "e">> -> caseBundle(acc, target, cmd)
            [] OTHER -> acc

\* line 136
pushScriptPlugins(acc) ==
  [acc EXCEPT !.plugins = @ \o Values(acc.scriptPlugins)]

\* `config.scripts['mount:web_modules']` (line 139)
declaresWebModules(scripts) ==
  Has(scripts, MountWebModules) /\ Get(scripts, MountWebModules) # <<>>

\* lines 139-145
defaultWebModules(acc, scripts) ==
  IF ~declaresWebModules(scripts)
    THEN [acc EXCEPT !.mountedDirs =
            Append(@, [id |-> MountWebModules,
                       fromDisk |-> DEV_DEPENDENCIES_DIR,
                       toUrl |-> <<"/", "w", "e", "b", "_", "m", "o", "d", "u", "l", "e", "s">>])]
    ELSE acc

\* lines 136-145
afterScripts(acc, scripts) == defaultWebModules(pushScriptPlugins(acc), scripts)

\* lines 33-36 and 54-55: the buckets at the start of a call
NewAcc ==
  [plugins |-> <<>>, runCommands |-> <<>>, mountedDirs |-> <<>>,
   bundler |-> <<>>, scriptPlugins |-> <<>>, buildCommands |-> <<>>,
   loads |-> <<>>, status |-> "ok", err |-> "none"]

RECURSIVE forEachScripts(_, _)
\* lines 56-134: the callback on each entry in turn, until one ends the call
forEachScripts(acc, scripts) ==
  IF scripts = <<>> \/ acc.status # "ok" THEN acc
  ELSE forEachScripts(forEachScript(acc, Head(scripts).k, Head(scripts).v),
                      Tail(scripts))

\* lines 33-145: loadPlugins up to the start of the config.plugins loop
scriptsPass(scripts) ==
  LET acc == forEachScripts(NewAcc, scripts)
  IN IF acc.status = "ok" THEN afterScripts(acc, scripts) ELSE acc

\* lines 149-150
refName(ref) == IF ref.t = "array" THEN ref.v[1] ELSE ref.v
refOptions(ref) == IF ref.t = "array" THEN ref.v[2] ELSE EmptyOptions

\* variant: the exclusivity check is skipped
isScriptPluginNever(acc, pluginName) == FALSE

\* `scriptPlugins[pluginName]` (line 152)
isScriptPlugin(acc, pluginName) == Has(acc.scriptPlugins, pluginName)

\* variant: only input is looked at, defaultBuildScript is forgotten
missingInputOnly(plugin) == ~Truthy(plugin.input)

\* `!plugin.defaultBuildScript && !plugin.input` (line 162)
missingInput(plugin) == ~Truthy(plugin.defaultBuildScript) /\ ~Truthy(plugin.input)

\* lines 167-171
backfillInput(plugin) ==
  IF Truthy(plugin.defaultBuildScript) /\ ~Truthy(plugin.input)
    THEN LET extensions == parseScript(plugin.defaultBuildScript.v).extensions
         IN [plugin EXCEPT !.input = JsArray(extensions),
                           !.output = JsArray(extensions)]
    ELSE plugin

\* lines 173-178: `name` is the free identifier, bound as the environment has it
backfillNameAndPush(acc, plugin, pluginName, binding) ==
  CASE binding = "unbound" -> throw(acc, "ReferenceError")
    [] binding = "falsy" ->
         [acc EXCEPT !.plugins = Append(@, [plugin EXCEPT !.name = JsString(pluginName)])]
    [] binding = "truthy" -> [acc EXCEPT !.plugins = Append(@, plugin)]

\* the callback of config.plugins' forEach (lines 148-179)
forEachPlugin(acc, ref, binding) ==
  LET pluginName == refName(ref)
      pluginOptions == refOptions(ref)
      plugin == loadPluginFromConfig(pluginName, pluginOptions)
      loaded == recordLoad(acc, pluginName, "hard", pluginOptions)
  IN IF isScriptPlugin(acc, pluginName) THEN handleError(acc, "ambiguous")
     ELSE IF plugin = <<>> THEN throw(loaded, "LoadError")
     ELSE IF missingInput(plugin[1]) THEN handleError(loaded, "missing-input")
     ELSE backfillNameAndPush(loaded, backfillInput(plugin[1]), pluginName, binding)

(***************************************************************************)
(* The configurations explored.  A directive is an entry [k, v] of         *)
(* config.scripts; a plugin reference is a bare specifier or a             *)
(* [specifier, options] pair.                                              *)
(***************************************************************************)
Directive(key, cmd) == [k |-> key, v |-> cmd]

ScriptPool ==
  { Directive(<<"b", "u", "i", "l", "d", ":", "j", "s", ",", "j", "s", "x">>, PluginA),
    Directive(<<"b", "u", "i", "l", "d", ":", "c", "s", "s">>, PluginA),
    Directive(<<"b", "u", "i", "l", "d", ":", "t", "s">>, PluginB),
    Directive(<<"b", "u", "i", "l", "d", ":", "m", "d">>, Plugin7),
    Directive(<<"B", "u", "i", "l", "d", ":", "C", "S", "S">>, <<"s", "h">>),
    Directive(<<"b", "u", "i", "l", "d", ":", "c", "s", "s", ",", "j", "s">>, <<"s", "2">>),
    Directive(<<"b", "u", "n", "d", "l", "e", ":", "c", "s", "s">>, <<"s", "h">>) }

MountPool ==
  { Directive(<<"m", "o", "u", "n", "t", ":", "f", "o", "o">>, <<"m", "o", "u", "n", "t", " ", "s", "r", "c", " ", "-", "-", "t", "o", " ", "/", "a", "p", "p">>),
    Directive(<<"m", "o", "u", "n", "t", ":", "f", "o", "o">>, <<"m", "o", "u", "n", "t", " ", "s", "r", "c">>),
    Directive(<<"m", "o", "u", "n", "t", ":", "f", "o", "o">>, <<"m", "o", "u", "n", "t", " ", "-", "-", "t", "o", " ", "/", "a", "p", "p", " ", "s", "r", "c">>),
    Directive(<<"m", "o", "u", "n", "t", ":", "f", "o", "o">>, <<"c", "o", "p", "y", " ", "s", "r", "c">>),
    Directive(<<"m", "o", "u", "n", "t", ":", "f", "o", "o">>, <<"m", "o", "u", "n", "t", " ", "s", "r", "c", " ", "-", "-", "t", "o", " ", "a", "p", "p">>),
    Directive(<<"m", "o", "u", "n", "t", ":", "f", "o", "o">>, <<"m", "o", "u", "n", "t", " ", "s", "r", "c", " ", "-", "-", "t", "o">>),
    Directive(<<"m", "o", "u", "n", "t", ":", "f", "o", "o">>, <<"m", "o", "u", "n", "t", " ", "s", "r", "c", " ", "-", "-", "t", "o", " ", "0">>),
    Directive(<<"m", "o", "u", "n", "t", ":", "f", "o", "o">>, <<"m", "o", "u", "n", "t">>),
    Directive(<<"m", "o", "u", "n", "t", ":", "f", "o", "o">>, <<"m", "o", "u", "n", "t", " ", "s", "r", "c", " ", "l", "i", "b">>),
    Directive(<<"m", "o", "u", "n", "t", ":", "p", "u", "b", "l", "i", "c">>, <<"m", "o", "u", "n", "t", " ", "p", "u", "b", "l", "i", "c", " ", "-", "-", "t", "o", " ", "/">>),
    Directive(<<"m", "o", "u", "n", "t", ":", "w", "e", "b", "_", "m", "o", "d", "u", "l", "e", "s">>, <<"m", "o", "u", "n", "t", " ", "w", "e", "b", "_", "m", "o", "d", "u", "l", "e", "s">>),
    Directive(<<"m", "o", "u", "n", "t", ":", "w", "e", "b", "_", "m", "o", "d", "u", "l", "e", "s">>, <<"m", "o", "u", "n", "t", " ", "d", "e", "p", "s", " ", "-", "-", "t", "o", " ", "/", "l", "i", "b">>),
    Directive(<<"r", "u", "n", ":", "l", "i", "n", "t">>, <<"e", "s", "l", "i", "n", "t", " ", ".">>),
    Directive(<<"b", "u", "n", "d", "l", "e", ":", "j", "s">>, PluginB),
    Directive(<<"b", "u", "n", "d", "l", "e", ":", "c", "s", "s">>, <<"s", "h">>),
    Directive(<<"b", "u", "i", "l", "d", ":", "j", "s", ",", "j", "s", "x">>, PluginA) }

PluginRefPool == { JsArray(<<PluginA, <<"o", "p", "t", "s">>>>), JsString(PluginB) }

\* configurations for the config.plugins loop: few directives, plugins of
\* every shape
ExplicitScriptPool ==
  { Directive(<<"b", "u", "i", "l", "d", ":", "c", "s", "s">>, PluginA),
    Directive(<<"b", "u", "i", "l", "d", ":", "t", "s">>, PluginB) }

ExplicitPluginRefPool ==
  { JsArray(<<PluginA, <<"o", "p", "t", "s">>>>), JsString(PluginB), JsString(PluginD),
    JsString(PluginS) }

MountPluginRefPool == { JsString(PluginA), JsString(<<"s", "h">>) }

SeqsUpTo(S, n) == UNION { [1..m -> S] : m \in 0..n }

\* the entries of an object literal have distinct keys
DistinctKeys(s) == \A a, b \in 1..Len(s) : a # b => s[a].k # s[b].k

Configs(scriptPool, refPool) ==
  { [scripts |-> s, plugins |-> p] :
      s \in { q \in SeqsUpTo(scriptPool, MaxScripts) : DistinctKeys(q) },
      p \in SeqsUpTo(refPool, MaxPlugins) }

(***************************************************************************)
(* loadPlugins as a state machine: one step per directive, one for lines   *)
(* 136-145, one per plugin reference, one for the return.                  *)
(***************************************************************************)
Acc ==
  [plugins |-> plugins, runCommands |-> runCommands, mountedDirs |-> mountedDirs,
   bundler |-> bundler, scriptPlugins |-> scriptPlugins,
   buildCommands |-> buildCommands, loads |-> loads, status |-> "ok", err |-> err]

Assign(acc) ==
  /\ plugins' = acc.plugins
  /\ runCommands' = acc.runCommands
  /\ mountedDirs' = acc.mountedDirs
  /\ bundler' = acc.bundler
  /\ scriptPlugins' = acc.scriptPlugins
  /\ buildCommands' = acc.buildCommands
  /\ loads' = acc.loads
  /\ err' = acc.err

InitLoad(configs, at) ==
  /\ config \in configs
  /\ pc = at
  /\ idx = 1
  /\ plugins = <<>>
  /\ runCommands = <<>>
  /\ mountedDirs = <<>>
  /\ bundler = <<>>
  /\ scriptPlugins = <<>>
  /\ buildCommands = <<>>
  /\ loads = <<>>
  /\ err = "none"
  /\ nameBinding = "unread"

IdleParse == script = <<>> /\ parsed = <<>>
IdlePipeline == pluginList = <<>> /\ pipeline = <<>> /\ reindexed = <<>>

IdleLoad == InitLoad({[scripts |-> <<>>, plugins |-> <<>>]}, "idle")

Init ==
  /\ InitLoad(Configs(ScriptPool, PluginRefPool), "scripts")
  /\ IdleParse
  /\ IdlePipeline

InitExplicit ==
  /\ InitLoad(Configs(ExplicitScriptPool, ExplicitPluginRefPool), "scripts")
  /\ IdleParse
  /\ IdlePipeline

InitMount ==
  /\ InitLoad(Configs(MountPool, MountPluginRefPool), "scripts")
  /\ IdleParse
  /\ IdlePipeline

ScriptStep ==
  /\ pc = "scripts"
  /\ idx <= Len(config.scripts)
  /\ LET acc == forEachScript(Acc, config.scripts[idx].k, config.scripts[idx].v)
     IN /\ Assign(acc)
        /\ pc' = IF acc.status = "ok" THEN "scripts" ELSE acc.status
  /\ idx' = idx + 1
  /\ UNCHANGED <<config, nameBinding, parseVars, pipeVars>>

AfterScripts ==
  /\ pc = "scripts"
  /\ idx > Len(config.scripts)
  /\ Assign(afterScripts(Acc, config.scripts))
  /\ pc' = "plugins"
  /\ idx' = 1
  /\ UNCHANGED <<config, nameBinding, parseVars, pipeVars>>

PluginStep ==
  /\ pc = "plugins"
  /\ idx <= Len(config.plugins)
  /\ \E binding \in IF nameBinding = "unread" THEN NameBindings ELSE {nameBinding} :
       LET acc == forEachPlugin(Acc, config.plugins[idx], binding)
       IN /\ Assign(acc)
          /\ pc' = IF acc.status = "ok" THEN "plugins" ELSE acc.status
          /\ nameBinding' = binding
  /\ idx' = idx + 1
  /\ UNCHANGED <<config, parseVars, pipeVars>>

Return ==
  /\ pc = "plugins"
  /\ idx > Len(config.plugins)
  /\ pc' = "done"
  /\ UNCHANGED <<config, idx, plugins, runCommands, mountedDirs, bundler,
                 scriptPlugins, buildCommands, loads, err, nameBinding,
                 parseVars, pipeVars>>

Next == ScriptStep \/ AfterScripts \/ PluginStep \/ Return

Spec == Init /\ [][Next]_vars

SpecExplicit == InitExplicit /\ [][Next]_vars

SpecMount == InitMount /\ [][Next]_vars

(***************************************************************************)
(* parseScript on its own: the directive keys "<type>:<e1,...,en>" with    *)
(* 1 <= n <= MaxExts, in several letter cases, with and without a leading  *)
(* dot or blank on a token.                                                *)
(***************************************************************************)
ParseTypes == { <<"b", "u", "i", "l", "d">>, <<"B", "u", "i", "l", "d">>, <<"R", "U", "N">> }
ExtTokens == { <<"j", "s">>, <<"J", "S">>, <<"j", "s", "x">>, <<".", "j", "s">>, <<"c", "s", "s">>, <<" ", "j", "s">> }

ParseKeys ==
  { type \o <<":">> \o Join(exts, ",") :
      type \in ParseTypes,
      exts \in SeqsUpTo(ExtTokens, MaxExts) \ {<<>>} }

InitParse ==
  /\ IdleLoad
  /\ script \in ParseKeys
  /\ parsed = <<>>
  /\ IdlePipeline

Parse ==
  /\ parsed = <<>>
  /\ parsed' = <<parseScript(script)>>
  /\ UNCHANGED <<loadVars, script, pipeVars>>

NextParse == Parse

SpecParse == InitParse /\ [][NextParse]_vars

(***************************************************************************)
(* createBuildPipeline (lines 190-201) on its own, over the lists of at    *)
(* most MaxList plugins, a plugin possibly occurring twice.                *)
(***************************************************************************)
\* the property key a non-array input becomes (line 194 wraps it, 196 indexes)
propertyKey(x) == IF x.t = "string" THEN x.v ELSE <<"u", "n", "d", "e", "f", "i", "n", "e", "d">>

\* line 194
inputsOf(plugin) ==
  IF plugin.input.t = "array" THEN plugin.input.v ELSE <<propertyKey(plugin.input)>>

\* variant: unshift instead of push
unshiftPlugin(chain, plugin) == <<plugin>> \o chain

\* pipeline[ext].push(plugin) (line 196)
pushPlugin(chain, plugin) == Append(chain, plugin)

\* lines 196-197
indexInput(pl, ext, plugin) ==
  IF Has(pl, ext) THEN Put(pl, ext, pushPlugin(Get(pl, ext), plugin))
  ELSE Put(pl, ext, <<plugin>>)

RECURSIVE indexInputs(_, _, _)
\* the inner forEach (lines 195-198)
indexInputs(pl, inputs, plugin) ==
  IF inputs = <<>> THEN pl
  ELSE indexInputs(indexInput(pl, Head(inputs), plugin), Tail(inputs), plugin)

RECURSIVE indexPlugins(_, _)
\* the outer forEach (lines 193-199)
indexPlugins(pl, list) ==
  IF list = <<>> THEN pl
  ELSE indexPlugins(indexInputs(pl, inputsOf(Head(list)), Head(list)), Tail(list))

createBuildPipeline(list) == indexPlugins(<<>>, list)

PipelinePlugins ==
  { NewPlugin(PluginA, JsString(PluginA), JsArray(<<<<".", "j", "s">>, <<".", "j", "s", "x">>>>),
              JsArray(<<<<".", "j", "s">>, <<".", "j", "s", "x">>>>), Undefined),
    NewPlugin(PluginB, JsString(<<"n", "b">>), JsArray(<<<<".", "j", "s", "x">>, <<".", "j", "s">>>>),
              JsArray(<<<<".", "j", "s">>>>), Undefined),
    NewPlugin(PluginD, JsString(PluginD), JsArray(<<<<".", "c", "s", "s">>>>),
              JsArray(<<<<".", "c", "s", "s">>>>), JsString(<<"b", "u", "i", "l", "d", ":", "c", "s", "s">>)),
    NewPlugin(PluginS, Undefined, JsString(<<".", "j", "s">>), JsString(<<".", "j", "s">>), Undefined),
    NewPlugin(<<"p", "e">>, JsString(<<"p", "e">>), JsArray(<<>>), JsArray(<<>>), Undefined),
    NewPlugin(<<"p", "f">>, JsString(<<"p", "f">>), JsArray(<<<<".", "c", "s", "s">>, <<".", "t", "s">>>>),
              JsArray(<<<<".", "c", "s", "s">>>>), Undefined) }

PipelineExts == { <<".", "j", "s">>, <<".", "j", "s", "x">>, <<".", "c", "s", "s">>, <<".", "t", "s">>, <<".", "v", "u", "e">> }

InitPipeline ==
  /\ IdleLoad
  /\ IdleParse
  /\ pluginList \in SeqsUpTo(PipelinePlugins, MaxList)
  /\ pipeline = <<>>
  /\ reindexed = <<>>

Index ==
  /\ pipeline = <<>>
  /\ pipeline' = <<createBuildPipeline(pluginList)>>
  /\ UNCHANGED <<loadVars, parseVars, pluginList, reindexed>>

Reindex ==
  /\ pipeline # <<>>
  /\ reindexed = <<>>
  /\ reindexed' = <<createBuildPipeline(pluginList)>>
  /\ UNCHANGED <<loadVars, parseVars, pluginList, pipeline>>

NextPipeline == Index \/ Reindex

SpecPipeline == InitPipeline /\ [][NextPipeline]_vars

(***************************************************************************)
(* Vocabulary of the properties.                                           *)
(***************************************************************************)
SetOf(s) == { s[k] : k \in 1..Len(s) }

DirectiveType(d) == parseScript(d.k).scriptType
DirectiveExts(d) == parseScript(d.k).extensions
IsBuild(d) == DirectiveType(d) = <<"b", "u", "i", "l", "d">>
IsMount(d) == DirectiveType(d) = <<"m", "o", "u", "n", "t">>
IsBundle(d) == DirectiveType(d) = <<"b", "u", "n", "d", "l", "e">>

\* the specifier loads as a plugin
SoftLoads(specifier) == Require(specifier) # <<>>

\* a build directive whose command is a plugin / is a shell command
PluginBuild(d) == SoftLoads(d.v) /\ IsBuild(d)
ShellBuild(d) == ~SoftLoads(d.v) /\ IsBuild(d)
FailedBundle(d) == ~SoftLoads(d.v) /\ IsBundle(d)

\* each way of ending without a result belongs to one of the two loops
ScriptPhaseErrors ==
  {"TypeError", "mount-command", "mount-format", "mount-to", "bundle-load"}
Ended == pc \in {"exit", "throw"}
InScripts == pc = "scripts" \/ (Ended /\ err \in ScriptPhaseErrors)

\* the directives / plugin references reached so far, the one that ended
\* the call included
DirectivesDone == IF InScripts THEN idx - 1 ELSE Len(config.scripts)
RefsDone == IF InScripts THEN 0 ELSE idx - 1

HardLoads == SelectSeq(loads, LAMBDA l : l.how = "hard")

\* some build directive registers the specifier as a script-derived plugin
ScriptRegistered(specifier) ==
  \E n \in 1..Len(config.scripts) :
    config.scripts[n].v = specifier /\ PluginBuild(config.scripts[n])

\* C1: when two build directives carry the same command and it loads as a
\* plugin, processing the second one does not end the call, and the result
\* holds exactly one plugin named after the specifier whose input and output
\* are the union of the extensions of all those directives.
C1_DuplicateBuildMerged ==
  \A a, b \in 1..Len(config.scripts) :
    (a < b /\ PluginBuild(config.scripts[a]) /\ PluginBuild(config.scripts[b])
       /\ config.scripts[a].v = config.scripts[b].v) =>
      LET specifier == config.scripts[b].v
          union == UNION { SetOf(DirectiveExts(config.scripts[n])) :
                             n \in { m \in 1..Len(config.scripts) :
                                       PluginBuild(config.scripts[m])
                                       /\ config.scripts[m].v = specifier } }
          named == SelectSeq(plugins, LAMBDA p : p.name = JsString(specifier))
      IN /\ ~(pc = "throw" /\ err = "TypeError" /\ idx = b + 1)
         /\ pc = "done" =>
              /\ Len(named) = 1
              /\ named[1].input.t = "array"
              /\ SetOf(named[1].input.v) = union
              /\ named[1].output.t = "array"
              /\ SetOf(named[1].output.v) = union

\* C2: parseScript returns the lower-cased script type and extensions without
\* duplicates, each beginning with exactly one dot; "build:js,jsx" gives
\* .js and .jsx, "build:js,JS" gives .js alone.
OneLeadingDot(ext) ==
  Len(ext) >= 1 /\ ext[1] = "." /\ (Len(ext) >= 2 => ext[2] # ".")

C2_ParseScriptNormalizes ==
  parsed # <<>> =>
    LET r == parsed[1]
    IN /\ r.scriptType = toLowerCase(Head(split(script, ":")))
       /\ \A a, b \in 1..Len(r.extensions) :
            a # b => r.extensions[a] # r.extensions[b]
       /\ \A k \in 1..Len(r.extensions) : OneLeadingDot(r.extensions[k])
       /\ script = <<"b", "u", "i", "l", "d", ":", "j", "s", ",", "j", "s", "x">> => r.extensions = <<<<".", "j", "s">>, <<".", "j", "s", "x">>>>
       /\ script = <<"b", "u", "i", "l", "d", ":", "j", "s", ",", "J", "S">> => r.extensions = <<<<".", "j", "s">>>>

\* C3: a plugin reference whose specifier a build directive registered as a
\* script-derived plugin ends the call with the ambiguous-registration error:
\* nothing is appended, no load is attempted for it, no result is returned.
C3_AmbiguousAborts ==
  \A n \in 1..RefsDone :
    ScriptRegistered(refName(config.plugins[n])) =>
      /\ pc = "exit"
      /\ err = "ambiguous"
      /\ idx = n + 1
      /\ Len(plugins) = Len(scriptPlugins) + (n - 1)
      /\ Len(HardLoads) = n - 1

C3_Witness ==
  /\ pc = "exit"
  /\ err = "ambiguous"
  /\ config.plugins[idx - 1].t = "array"
  /\ Len(plugins) = 2

\* mount <dir> [--to <urlPath>], urlPath starting with "/", in any order
WellFormedMount(d) ==
  LET words == splitWhitespace(d.v)
      args == yargs(Tail(words))
  IN /\ words[1] = Mount
     /\ Len(args.positional) = 1
     /\ \/ args.to.t = "undefined"
        \/ args.to.t = "string" /\ args.to.v # <<>> /\ args.to.v[1] = "/"

\* C4: a well-formed mount directive appends {id: key, fromDisk:
\* normalize(dir + "/"), toUrl: normalize((to, else "/" + dir) + "/")} with dir
\* the positional argument wherever --to stands; for mount:web_modules
\* fromDisk is the dependency directory.
C4_MountEntry ==
  \A n \in 1..Len(mountedDirs) : \A m \in 1..Len(config.scripts) :
    (IsMount(config.scripts[m]) /\ WellFormedMount(config.scripts[m])
       /\ config.scripts[m].k = mountedDirs[n].id) =>
      LET args == yargs(Tail(splitWhitespace(config.scripts[m].v)))
          dir == args.positional[1]
          from == IF config.scripts[m].k = MountWebModules
                    THEN DEV_DEPENDENCIES_DIR ELSE dir
          url == IF args.to.t = "string" THEN args.to.v ELSE Slash \o dir
      IN mountedDirs[n] = [id |-> config.scripts[m].k,
                           fromDisk |-> normalize(from \o Slash),
                           toUrl |-> normalize(url \o Slash)]

\* C5: a mount directive ends the call with a configuration error when its
\* first word is not mount, when it has not exactly one positional argument
\* besides mount and --to, or when --to has a value not starting with "/".
MalformedMount(d) ==
  LET words == splitWhitespace(d.v)
      args == yargs(Tail(words))
  IN \/ words[1] # Mount
     \/ Len(args.positional) # 1
     \/ /\ args.to.t # "undefined"
        /\ ~(args.to.t = "string" /\ args.to.v # <<>> /\ args.to.v[1] = "/")

MountErrors == {"mount-command", "mount-format", "mount-to"}

C5_MalformedMountAborts ==
  \A n \in 1..DirectivesDone :
    (IsMount(config.scripts[n]) /\ MalformedMount(config.scripts[n])) =>
      /\ pc = "exit"
      /\ err \in MountErrors
      /\ idx = n + 1
      /\ \A m \in 1..Len(mountedDirs) : mountedDirs[m].id # config.scripts[n].k

\* C6: a result holds exactly one mount with id mount:web_modules: the
\* synthetic one, from the dependency directory to "/web_modules/", when no
\* directive has that key, and the declared one alone when one has.
C6_WebModulesMount ==
  pc = "done" =>
    LET entries == SelectSeq(mountedDirs, LAMBDA e : e.id = MountWebModules)
    IN /\ Len(entries) = 1
       /\ ~Has(config.scripts, MountWebModules) =>
            entries[1] = [id |-> MountWebModules,
                          fromDisk |-> DEV_DEPENDENCIES_DIR,
                          toUrl |-> <<"/", "w", "e", "b", "_", "m", "o", "d", "u", "l", "e", "s", "/">>]

\* C7: a build directive whose command does not load as a plugin never ends
\* the call and registers no plugin; it stores {id, cmd} in buildCommands
\* under each of its extensions, the last such directive winning.
LastShellBuild(ext, upto) ==
  LET ns == { n \in 1..upto : /\ ShellBuild(config.scripts[n])
                              /\ ext \in SetOf(DirectiveExts(config.scripts[n])) }
  IN CHOOSE n \in ns : \A m \in ns : m <= n

C7_ShellFallback ==
  /\ \A n \in 1..DirectivesDone :
       ShellBuild(config.scripts[n]) =>
         /\ ~(Ended /\ InScripts /\ idx = n + 1)
         /\ ~Has(scriptPlugins, config.scripts[n].v)
         /\ \A m \in 1..Len(plugins) : plugins[m].module # config.scripts[n].v
         /\ \A e \in SetOf(DirectiveExts(config.scripts[n])) :
              /\ Has(buildCommands, e)
              /\ Get(buildCommands, e) =
                   LET d == config.scripts[LastShellBuild(e, DirectivesDone)]
                   IN [id |-> d.k, cmd |-> d.v]
  /\ \A n \in 1..Len(buildCommands) :
       \E m \in 1..DirectivesDone :
         /\ ShellBuild(config.scripts[m])
         /\ buildCommands[n].k \in SetOf(DirectiveExts(config.scripts[m]))

C7_Witness ==
  /\ pc = "done"
  /\ Len(config.scripts) = 2
  /\ ShellBuild(config.scripts[1])
  /\ ShellBuild(config.scripts[2])
  /\ \E e \in SetOf(DirectiveExts(config.scripts[1])) :
       /\ e \in SetOf(DirectiveExts(config.scripts[2]))
       /\ Get(buildCommands, e).id = config.scripts[2].k
  /\ plugins = <<>>

\* C8: a bundle directive whose command does not load as a plugin always ends
\* the call, leaving nothing in buildCommands or runCommands and no result.
C8_BundleFailureFatal ==
  \A n \in 1..DirectivesDone :
    FailedBundle(config.scripts[n]) =>
      /\ pc = "exit"
      /\ err = "bundle-load"
      /\ idx = n + 1
      /\ bundler = <<>>
      /\ \A m \in 1..Len(buildCommands) : buildCommands[m].v.id # config.scripts[n].k
      /\ \A m \in 1..Len(runCommands) : runCommands[m].id # config.scripts[n].k

C8_Witness ==
  /\ pc = "exit"
  /\ err = "bundle-load"
  /\ bundler = <<>>
  /\ buildCommands # <<>>

\* C9: the plugin list of a result is the script-derived plugins, in the
\* order in which build directives first registered their specifiers,
\* followed by the explicit plugins in the order of config.plugins.
ScriptSpecifiers ==
  LET builds == SelectSeq(config.scripts, PluginBuild)
  IN unique([n \in 1..Len(builds) |-> builds[n].v])

C9_PluginOrder ==
  pc = "done" =>
    /\ [n \in 1..Len(plugins) |-> plugins[n].module] =
         ScriptSpecifiers
           \o [n \in 1..Len(config.plugins) |-> refName(config.plugins[n])]
    /\ \A n \in 1..Len(ScriptSpecifiers) :
         plugins[n].name = JsString(ScriptSpecifiers[n])

\* C10: createBuildPipeline maps each extension to exactly the plugins whose
\* input contains it, in list order and once per occurrence in the list, has
\* no key for an extension no plugin accepts, gives the same mapping when the
\* list is indexed again, and leaves the list unchanged.
Accepts(plugin, e) ==
  IF plugin.input.t = "array"
    THEN \E k \in 1..Len(plugin.input.v) : plugin.input.v[k] = e
    ELSE plugin.input.t = "string" /\ plugin.input.v = e

C10_PipelineIndex ==
  /\ [](pipeline # <<>> =>
          LET pl == pipeline[1]
          IN /\ \A e \in PipelineExts :
                  IF \E n \in 1..Len(pluginList) : Accepts(pluginList[n], e)
                    THEN /\ Has(pl, e)
                         /\ Get(pl, e) =
                              SelectSeq(pluginList, LAMBDA p : Accepts(p, e))
                    ELSE ~Has(pl, e)
             /\ \A n \in 1..Len(pl) :
                  /\ pl[n].k \in PipelineExts
                  /\ \A m \in 1..Len(pl) : m # n => pl[m].k # pl[n].k
             /\ reindexed # <<>> => reindexed = pipeline)
  /\ [][pluginList' = pluginList]_vars

C10_Witness ==
  /\ reindexed # <<>>
  /\ Len(pluginList) = 2
  /\ pluginList[1].input.t = "string"
  /\ pluginList[2] # pluginList[1]
  /\ Has(pipeline[1], <<".", "j", "s">>)
  /\ Len(Get(pipeline[1], <<".", "j", "s">>)) = 2

\* C11: every plugin of a result, script-derived or explicit, has a name and
\* a non-empty input set.
HasName(plugin) == plugin.name.t = "string" /\ plugin.name.v # <<>>

HasInput(plugin) ==
  \/ plugin.input.t = "array" /\ plugin.input.v # <<>>
  \/ plugin.input.t = "string" /\ plugin.input.v # <<>>

EndsWithSlash(s) == s # <<>> /\ s[Len(s)] = "/"
BeginsWithSlash(s) == s # <<>> /\ s[1] = "/"

C12_MountPathsSlashed ==
  pc = "done" =>
    \A n \in 1..Len(mountedDirs) :
      /\ EndsWithSlash(mountedDirs[n].fromDisk)
      /\ EndsWithSlash(mountedDirs[n].toUrl)
      /\ BeginsWithSlash(mountedDirs[n].toUrl)

\* C13: a malformed mount directive, an ambiguous registration, an explicit
\* plugin without input, a bundler that fails to load and an explicit plugin
\* that fails to load each end the call where they are met: nothing after
\* them is processed, no further load is attempted, no result is returned.
NeedsLoad(d) == DirectiveType(d) \in {<<"b", "u", "i", "l", "d">>, <<"b", "u", "n", "d", "l", "e">>}

FatalDirective(d) == (IsMount(d) /\ MalformedMount(d)) \/ FailedBundle(d)

FatalRef(ref) ==
  \/ ScriptRegistered(refName(ref))
  \/ ~SoftLoads(refName(ref))
  \/ missingInput(Require(refName(ref))[1])

C13_ErrorsHalt ==
  /\ \A n \in 1..DirectivesDone :
       FatalDirective(config.scripts[n]) =>
         /\ Ended
         /\ idx = n + 1
         /\ Len(loads) = Cardinality({ m \in 1..n : NeedsLoad(config.scripts[m]) })
  /\ \A n \in 1..RefsDone :
       FatalRef(config.plugins[n]) =>
         /\ Ended
         /\ idx = n + 1
         /\ Len(plugins) = Len(scriptPlugins) + (n - 1)
         /\ Len(HardLoads) =
              IF ScriptRegistered(refName(config.plugins[n])) THEN n - 1 ELSE n

\* C14: an explicit plugin that loads but declares neither defaultBuildScript
\* nor input ends the call with the missing-input error and is not appended;
\* one that declares either is never rejected by that check.
Declares(value) == value.t # "undefined"

\* the reference reaches the hard load and the load succeeds
HardLoaded(ref) == ~ScriptRegistered(refName(ref)) /\ SoftLoads(refName(ref))

C14_MissingInputRejected ==
  \A n \in 1..RefsDone :
    HardLoaded(config.plugins[n]) =>
      LET loaded == Require(refName(config.plugins[n]))[1]
      IN IF ~Declares(loaded.defaultBuildScript) /\ ~Declares(loaded.input)
           THEN /\ pc = "exit"
                /\ err = "missing-input"
                /\ idx = n + 1
                /\ Len(plugins) = Len(scriptPlugins) + (n - 1)
           ELSE ~(err = "missing-input" /\ idx = n + 1)

C14_Witness ==
  /\ pc = "exit"
  /\ err = "missing-input"
  /\ idx = 3
  /\ Declares(Require(refName(config.plugins[1]))[1].defaultBuildScript)
  /\ Len(plugins) = 1

(***************************************************************************)
(* Resolution of configurations whose directives are of every kind, for    *)
(* the properties of the config.scripts loop as a whole.                   *)
(***************************************************************************)
DirectivePool ==
  { Directive(<<"r", "u", "n", ":", "l", "i", "n", "t">>, <<"e", "s", "l", "i", "n", "t", " ", ".">>),
    Directive(<<"r", "u", "n", ":", "t", "e", "s", "t">>, <<"j", "e", "s", "t">>),
    Directive(<<"t", "e", "s", "t", ":", "j", "s">>, <<"j", "e", "s", "t">>),
    Directive(<<"B", "u", "i", "l", "d", ":", "C", "S", "S">>, <<"s", "h">>),
    Directive(<<"b", "u", "i", "l", "d", ":", "c", "s", "s", ",", "j", "s">>, <<"s", "2">>),
    Directive(<<"b", "u", "i", "l", "d", ":", "t", "s">>, PluginB),
    Directive(<<"m", "o", "u", "n", "t", ":", "p", "u", "b", "l", "i", "c">>, <<"m", "o", "u", "n", "t", " ", "p", "u", "b", "l", "i", "c", " ", "-", "-", "t", "o", " ", "/">>),
    Directive(<<"m", "o", "u", "n", "t", ":", "w", "e", "b", "_", "m", "o", "d", "u", "l", "e", "s">>, <<"m", "o", "u", "n", "t", " ", "w", "e", "b", "_", "m", "o", "d", "u", "l", "e", "s">>),
    Directive(<<"b", "u", "n", "d", "l", "e", ":", "j", "s">>, PluginB),
    Directive(<<"b", "u", "n", "d", "l", "e", ":", "c", "s", "s">>, PluginA),
    Directive(<<"b", "u", "n", "d", "l", "e", ":", "x">>, <<"s", "h">>) }

DirectivePluginRefPool == { JsString(PluginS) }

InitScripts ==
  /\ InitLoad(Configs(DirectivePool, DirectivePluginRefPool), "scripts")
  /\ IdleParse
  /\ IdlePipeline

SpecScripts == InitScripts /\ [][Next]_vars

\* the declaration orders of the same directives
Orders(scripts) ==
  { [n \in 1..Len(scripts) |-> scripts[f[n]]] :
      f \in { g \in [1..Len(scripts) -> 1..Len(scripts)] :
                \A a, b \in 1..Len(scripts) : a # b => g[a] # g[b] } }

\* the config.scripts loop and lines 136-145 are over, or have ended the call
ScriptsPassed == pc = "plugins" /\ idx = 1
ScriptsAborted == Ended /\ InScripts

\* a script-derived plugin with its extensions as sets
AsSets(plugin) ==
  [module |-> plugin.module, name |-> plugin.name,
   input |-> SetOf(plugin.input.v), output |-> SetOf(plugin.output.v)]

SameButBuildAndBundler(r) ==
  /\ SetOf(r.runCommands) = SetOf(runCommands)
  /\ { AsSets(r.scriptPlugins[n].v) : n \in 1..Len(r.scriptPlugins) } =
       { AsSets(scriptPlugins[n].v) : n \in 1..Len(scriptPlugins) }
  /\ SetOf(r.mountedDirs) = SetOf(mountedDirs)

\* the synthetic mount is added exactly when no directive has its id
SyntheticIffUndeclared ==
  Len(mountedDirs) =
    Cardinality({ n \in 1..Len(config.scripts) : IsMount(config.scripts[n]) })
      + (IF Has(config.scripts, MountWebModules) THEN 0 ELSE 1)

\* C15 as stated: whatever the order of the directives, both resolutions
\* abort or both succeed with the same run commands, build commands,
\* script-derived plugins, mounts and bundler (as collections).
C15_OrderIrrelevant ==
  (ScriptsPassed \/ ScriptsAborted) =>
    \A q \in Orders(config.scripts) :
      LET r == scriptsPass(q)
      IN /\ (r.status # "ok") <=> ScriptsAborted
         /\ ScriptsPassed =>
              /\ SameButBuildAndBundler(r)
              /\ SetOf(r.buildCommands) = SetOf(buildCommands)
              /\ r.bundler = bundler
              /\ SyntheticIffUndeclared

\* the extensions that exactly one shell build directive lists
ListedOnce(ext) ==
  Cardinality({ n \in 1..Len(config.scripts) :
                  /\ ShellBuild(config.scripts[n])
                  /\ ext \in SetOf(DirectiveExts(config.scripts[n])) }) = 1

BundleCount ==
  Cardinality({ n \in 1..Len(config.scripts) : IsBundle(config.scripts[n]) })

\* C15 as amended: the order of the directives decides nothing but which
\* command an extension listed by several shell build directives keeps and
\* which of several bundlers stays, the last declared winning in both cases.
C15_OrderDecidesLastOnly ==
  (ScriptsPassed \/ ScriptsAborted) =>
    \A q \in Orders(config.scripts) :
      LET r == scriptsPass(q)
      IN /\ (r.status # "ok") <=> ScriptsAborted
         /\ ScriptsPassed =>
              /\ SameButBuildAndBundler(r)
              /\ { r.buildCommands[n].k : n \in 1..Len(r.buildCommands) } =
                   { buildCommands[n].k : n \in 1..Len(buildCommands) }
              /\ \A n \in 1..Len(buildCommands) :
                   ListedOnce(buildCommands[n].k) =>
                     Get(r.buildCommands, buildCommands[n].k) = buildCommands[n].v
              /\ BundleCount <= 1 => r.bundler = bundler
              /\ (r.bundler = <<>>) <=> (bundler = <<>>)
              /\ SyntheticIffUndeclared

C15_Witness ==
  /\ ScriptsPassed
  /\ Len(config.scripts) = 2
  /\ ShellBuild(config.scripts[1])
  /\ ShellBuild(config.scripts[2])
  /\ \E q \in Orders(config.scripts) :
       /\ q # config.scripts
       /\ scriptsPass(q).buildCommands # buildCommands
       /\ SetOf(scriptsPass(q).mountedDirs) = SetOf(mountedDirs)

\* C16: an explicit reference that is not script-registered, loads and
\* declares input or defaultBuildScript is appended without ending the call,
\* named as its factory named it, else after the specifier, with input and
\* output classified from defaultBuildScript when it declared no input.
Accepted(ref) ==
  /\ HardLoaded(ref)
  /\ LET loaded == Require(refName(ref))[1]
     IN Declares(loaded.input) \/ Declares(loaded.defaultBuildScript)

Completed(loaded, specifier) ==
  LET extensions == JsArray(parseScript(loaded.defaultBuildScript.v).extensions)
  IN [loaded EXCEPT
        !.name = IF Declares(loaded.name) THEN loaded.name ELSE JsString(specifier),
        !.input = IF Declares(loaded.input) THEN loaded.input ELSE extensions,
        !.output = IF Declares(loaded.input) THEN loaded.output ELSE extensions]

C16_ExplicitPluginAppended ==
  \A n \in 1..RefsDone :
    Accepted(config.plugins[n]) =>
      /\ ~(Ended /\ idx = n + 1)
      /\ plugins[Len(scriptPlugins) + n] =
           Completed(Require(refName(config.plugins[n]))[1],
                     refName(config.plugins[n]))

\* C17: in a result the bundler slot holds the plugin of the last bundle
\* directive, named as its factory named it, else after the command, and is
\* empty when there is none; a bundle directive changes no other bucket.
Bundles == { n \in 1..Len(config.scripts) : IsBundle(config.scripts[n]) }

LastBundle == config.scripts[CHOOSE n \in Bundles : \A m \in Bundles : m <= n]

AtBundle ==
  pc = "scripts" /\ idx <= Len(config.scripts) /\ IsBundle(config.scripts[idx])

C17_LastBundlerWins ==
  /\ [](pc = "done" =>
          IF Bundles = {} THEN bundler = <<>>
          ELSE LET loaded == Require(LastBundle.v)[1]
               IN bundler =
                    <<[loaded EXCEPT !.name = IF Declares(loaded.name)
                                                THEN loaded.name
                                                ELSE JsString(LastBundle.v)]>>)
  /\ [][AtBundle => UNCHANGED <<plugins, scriptPlugins, runCommands,
                                buildCommands, mountedDirs>>]_vars

C17_Witness ==
  /\ pc = "done"
  /\ Len(config.scripts) = 2
  /\ IsBundle(config.scripts[1])
  /\ IsBundle(config.scripts[2])
  /\ config.scripts[1].v # config.scripts[2].v
  /\ bundler # <<>>
  /\ bundler[1].name = JsString(PluginA)

\* C18: the loads happen in a fixed order: one soft load per build or bundle
\* directive in declaration order, then at most one hard load per plugin
\* reference in list order; none for run and mount directives, and no hard
\* load before the last directive has been processed.
SoftLoadsOf(directives) ==
  LET loading == SelectSeq(directives, NeedsLoad)
  IN [n \in 1..Len(loading) |->
        [specifier |-> loading[n].v, how |-> "soft", options |-> NoOptions]]

HardLoadsOf(refs) ==
  LET loading == SelectSeq(refs, LAMBDA ref : ~ScriptRegistered(refName(ref)))
  IN [n \in 1..Len(loading) |->
        [specifier |-> refName(loading[n]), how |-> "hard",
         options |-> refOptions(loading[n])]]

C18_LoadOrder ==
  loads = SoftLoadsOf(SubSeq(config.scripts, 1, DirectivesDone))
            \o HardLoadsOf(SubSeq(config.plugins, 1, RefsDone))

C18_Witness ==
  /\ pc = "done"
  /\ Len(config.scripts) = 2
  /\ DirectiveType(config.scripts[1]) = <<"r", "u", "n">>
  /\ Len(loads) = 3
  /\ loads[1].how = "soft"
  /\ loads[2].how = "hard"
  /\ loads[3].how = "hard"

\* C19: in a result no specifier occurs twice in the plugin list, neither
\* script-derived and explicit nor twice in config.plugins, so no plugin
\* occurs twice in a per-extension sequence of the pipeline built from it.
NoRepeat(list) ==
  \A a, b \in 1..Len(list) : a # b => list[a].module # list[b].module

IsRun(d) == DirectiveType(d) = <<"r", "u", "n">>
IsOther(d) == ~(IsRun(d) \/ IsBuild(d) \/ IsMount(d) \/ IsBundle(d))

AtRun ==
  pc = "scripts" /\ idx <= Len(config.scripts) /\ IsRun(config.scripts[idx])
AtOther ==
  pc = "scripts" /\ idx <= Len(config.scripts) /\ IsOther(config.scripts[idx])

RunsOf(directives) ==
  LET runs == SelectSeq(directives, IsRun)
  IN [n \in 1..Len(runs) |-> [id |-> runs[n].k, cmd |-> runs[n].v]]

C20_OtherSkippedRunAppended ==
  /\ [](runCommands = RunsOf(SubSeq(config.scripts, 1, DirectivesDone)))
  /\ [][AtOther =>
          /\ pc' = "scripts"
          /\ UNCHANGED <<plugins, scriptPlugins, runCommands, buildCommands,
                         mountedDirs, bundler, loads, err>>]_vars
  /\ [][AtRun =>
          /\ pc' = "scripts"
          /\ runCommands' = Append(runCommands, [id |-> config.scripts[idx].k,
                                                 cmd |-> config.scripts[idx].v])
          /\ UNCHANGED <<plugins, scriptPlugins, buildCommands, mountedDirs,
                         bundler, loads, err>>]_vars

C20_Witness ==
  /\ pc = "done"
  /\ Len(config.scripts) = 2
  /\ IsOther(config.scripts[1])
  /\ IsRun(config.scripts[2])
  /\ runCommands = <<[id |-> config.scripts[2].k, cmd |-> config.scripts[2].v]>>
  /\ loads = <<>>

====
